---- MODULE Spec2Model ----
(***************************************************************************)
(* A model of the limg crate: the Pixel (RGB565) arithmetic of             *)
(* src/src/pixel.rs, the Image container, its accessors and its            *)
(* encode/decode orchestration of src/src/image.rs, and the ImageIndex     *)
(* coordinate iterator of src/src/image.rs.  The format codec (limg_core)  *)
(* is an external crate; its operators are modelled from the contract the  *)
(* specification gives for it (section 6).                                 *)
(***************************************************************************)
EXTENDS Integers, Sequences, FiniteSets, TLC

VARIABLES img, ret, io, it, hist, pix

vars == <<img, ret, io, it, hist, pix>>

(***************************************************************************)
(* Bounds of the model.                                                    *)
(***************************************************************************)
\* largest width and height of a constructed image
MaxDim == 2
\* largest number of pixels of a constructed image
MaxPixels == 4
\* largest number of pixels of a decoded input in the Image lifecycle
MaxDecodePixels == 2
\* largest number of pixels of an image that is encoded or decoded
MaxCodecPixels == 3
\* largest width and height of an ImageIndex
MaxIterDim == 2
\* largest argument of nth
MaxN == 4
\* number of iterator calls followed in one behaviour
MaxCalls == 6

(***************************************************************************)
(* Fixed-width integer helpers.                                            *)
(***************************************************************************)
Pow2(k) == 2 ^ k

U16 == 65536

\* bit i of a
Bit(a, i) == (a \div Pow2(i)) % 2

RECURSIVE AndBits(_, _, _)
AndBits(a, b, i) ==
    IF i < 0 THEN 0
    ELSE Bit(a, i) * Bit(b, i) * Pow2(i) + AndBits(a, b, i - 1)

\* a & b on 16-bit values
BitAnd(a, b) == AndBits(a, b, 15)

RECURSIVE OrBits(_, _, _)
OrBits(a, b, i) ==
    IF i < 0 THEN 0
    ELSE (IF Bit(a, i) + Bit(b, i) > 0 THEN Pow2(i) ELSE 0) + OrBits(a, b, i - 1)

\* a | b on 16-bit values
BitOr(a, b) == OrBits(a, b, 15)

\* !a on a 16-bit value
BitNot16(a) == (U16 - 1) - a

\* a << k on a u16 (bits shifted out are lost)
Shl16(a, k) == (a * Pow2(k)) % U16

\* a << k on a u8
Shl8(a, k) == (a * Pow2(k)) % 256

\* a >> k
Shr(a, k) == a \div Pow2(k)

Min(a, b) == IF a < b THEN a ELSE b

\* usize saturating_sub
saturating_sub(a, b) == IF a >= b THEN a - b ELSE 0

(***************************************************************************)
(* Option values.                                                          *)
(***************************************************************************)
None == [some |-> FALSE, val |-> 0]
Some(v) == [some |-> TRUE, val |-> v]

\* the value of a variable a specification does not use
Unused == <<>>

(***************************************************************************)
(* Pixel (src/src/pixel.rs): a packed RGB565 value, held as its u16.       *)
(***************************************************************************)
R_MASK == 63488
G_MASK == 2016
B_MASK == 31

BLACK == 0
RED == 63488
GREEN == 2016
BLUE == 31
MAGENTA == 63519
CYAN == 2047
YELLOW == 65504
GRAY == 31727
WHITE == 65535

\* Pixel::new
PixelNew(color) == color

\* an r that shifts the 5-bit field up without replicating its high bits
r_no_replicate(p) ==
    LET r5 == Shr(BitAnd(p, R_MASK), 11) % 256
    IN  Shl8(r5, 3)

\* Pixel::r
r(p) ==
    LET r5 == Shr(BitAnd(p, R_MASK), 11) % 256
    IN  BitOr(Shl8(r5, 3), Shr(r5, 2))

\* Pixel::g
g(p) ==
    LET g6 == Shr(BitAnd(p, G_MASK), 5) % 256
    IN  BitOr(Shl8(g6, 2), Shr(g6, 4))

\* Pixel::b
b(p) ==
    LET b5 == BitAnd(p, B_MASK) % 256
    IN  BitOr(Shl8(b5, 3), Shr(b5, 2))

\* Pixel::set_r
set_r(p, v) ==
    LET rr == BitAnd(Shl16(v, 11 - 3), R_MASK)
    IN  BitOr(rr, BitAnd(p, BitNot16(R_MASK)))

\* a set_g that shifts as set_r and set_b do (by the 3 dropped bits of a 5-bit channel)
set_g_shift3(p, v) ==
    LET gg == BitAnd(Shl16(v, 5 - 3), G_MASK)
    IN  BitOr(gg, BitAnd(p, BitNot16(G_MASK)))

\* Pixel::set_g
set_g(p, v) ==
    LET gg == BitAnd(Shl16(v, 5 - 2), G_MASK)
    IN  BitOr(gg, BitAnd(p, BitNot16(G_MASK)))

\* a set_b that does not clear the old blue field
set_b_no_clear(p, v) ==
    LET bb == Shr(v, 3)
    IN  BitOr(bb, p)

\* Pixel::set_b
set_b(p, v) ==
    LET bb == Shr(v, 3)
    IN  BitOr(bb, BitAnd(p, BitNot16(B_MASK)))

\* limg_core::rgb_to_pixel: the truncation of the setters, packed in one step
rgb_to_pixel(rgb) ==
    BitOr(BitOr(Shl16(Shr(rgb[1], 3), 11), Shl16(Shr(rgb[2], 2), 5)), Shr(rgb[3], 3))

\* Pixel::from_rgb
from_rgb(rgb) == rgb_to_pixel(rgb)

\* limg_core::pixel_to_rgb: each field widened to 8 bits by repeating its high bits
pixel_to_rgb(p) ==
    LET r5 == p \div 2048
        g6 == (p \div 32) % 64
        b5 == p % 32
    IN  <<r5 * 8 + r5 \div 4, g6 * 4 + g6 \div 16, b5 * 8 + b5 \div 4>>

\* Pixel::into_rgb
into_rgb(p) == pixel_to_rgb(p)

\* the u8 channel values the Pixel operations are called with
ChanVals == {0, 7, 8, 127, 128, 255}

\* the packed values a Pixel starts from
PixelStarts == {BLACK, RED, GREEN, BLUE, MAGENTA, CYAN, YELLOW, GRAY, WHITE, 4660}

\* a channel no setter has written yet
Unset == 0 - 1

\* a Pixel no operation has acted on yet
FreshPixel(c) ==
    [p |-> c, rset |-> Unset, gset |-> Unset, bset |-> Unset,
     op |-> "new", arg |-> 0, prev |-> c, out |-> <<>>]

PixInit ==
    /\ pix \in {FreshPixel(PixelNew(c)) : c \in PixelStarts}
    /\ img = Unused /\ ret = Unused /\ io = Unused /\ it = Unused /\ hist = Unused

\* the record of a setter call: the value given and the pixel before it
Set(op, v) == [pix EXCEPT !.op = op, !.arg = v, !.prev = pix.p, !.out = <<>>]

PxSetR(v) ==
    /\ pix' = [Set("set_r", v) EXCEPT !.p = set_r(pix.p, v), !.rset = v]
    /\ UNCHANGED <<img, ret, io, it, hist>>

PxSetG(v) ==
    /\ pix' = [Set("set_g", v) EXCEPT !.p = set_g(pix.p, v), !.gset = v]
    /\ UNCHANGED <<img, ret, io, it, hist>>

PxSetB(v) ==
    /\ pix' = [Set("set_b", v) EXCEPT !.p = set_b(pix.p, v), !.bset = v]
    /\ UNCHANGED <<img, ret, io, it, hist>>

\* a fresh Pixel made by from_rgb: no setter has acted on it yet
PxFromRgb(rgb) ==
    /\ pix' = [FreshPixel(from_rgb(rgb)) EXCEPT !.op = "from_rgb"]
    /\ UNCHANGED <<img, ret, io, it, hist>>

\* the record of a read: the pixel is left as it is
Read(op, out) == [pix EXCEPT !.op = op, !.arg = 0, !.prev = pix.p, !.out = out]

PxR ==
    /\ pix' = Read("r", <<r(pix.p)>>)
    /\ UNCHANGED <<img, ret, io, it, hist>>

PxG ==
    /\ pix' = Read("g", <<g(pix.p)>>)
    /\ UNCHANGED <<img, ret, io, it, hist>>

PxB ==
    /\ pix' = Read("b", <<b(pix.p)>>)
    /\ UNCHANGED <<img, ret, io, it, hist>>

PxIntoRgb ==
    /\ pix' = Read("into_rgb", into_rgb(pix.p))
    /\ UNCHANGED <<img, ret, io, it, hist>>

PixNext ==
    \/ \E v \in ChanVals : PxSetR(v)
    \/ \E v \in ChanVals : PxSetG(v)
    \/ \E v \in ChanVals : PxSetB(v)
    \/ \E rv \in {0, 255}, gv \in {0, 128}, bv \in {8, 255} : PxFromRgb(<<rv, gv, bv>>)
    \/ PxR
    \/ PxG
    \/ PxB
    \/ PxIntoRgb

PixelSpec == PixInit /\ [][PixNext]_vars

\* C8: once set_r, set_g and set_b have each been applied (in any order, from
\* any starting pixel), the pixel equals from_rgb of the three values set, and
\* its packed value is ((r >> 3) << 11) | ((g >> 2) << 5) | (b >> 3).
C8_FromRgbEqualsSetters ==
    (pix.rset # Unset /\ pix.gset # Unset /\ pix.bset # Unset) =>
        /\ pix.p = from_rgb(<<pix.rset, pix.gset, pix.bset>>)
        /\ pix.p = (pix.rset \div 8) * 2048 + (pix.gset \div 4) * 32 + (pix.bset \div 8)

\* the three setters have acted, with values whose low bits are truncated
C8_Witness ==
    /\ pix.rset = 127 /\ pix.gset = 7 /\ pix.bset = 128
    /\ pix.p = 30768

(***************************************************************************)
(* ImageIndex (src/src/image.rs): the row-major coordinate iterator.       *)
(* An iterator state is [width, height, x, y]; a call returns the new      *)
(* state and the Option<(u16, u16)> it yields.                             *)
(***************************************************************************)
NoCoord == [some |-> FALSE, x |-> 0, y |-> 0]
Coord(cx, cy) == [some |-> TRUE, x |-> cx, y |-> cy]

\* ImageIndex::new
ImageIndexNew(w, h) == [width |-> w, height |-> h, x |-> 0, y |-> 0]

\* v += 1 on a u16: the value when the addition wraps, and whether it overflows
Inc16(v) == (v + 1) % U16
Overflows16(v) == v + 1 >= U16

\* the step both next and nth end with: x += 1, and at the end of the row
\* x = 0 and y += 1; ovf tells whether one of the additions overflowed u16
Advance(s) ==
    LET x1 == Inc16(s.x)
    IN  IF x1 = s.width
        THEN [st |-> [s EXCEPT !.x = 0, !.y = Inc16(s.y)],
              ovf |-> Overflows16(s.x) \/ Overflows16(s.y)]
        ELSE [st |-> [s EXCEPT !.x = x1], ovf |-> Overflows16(s.x)]

\* a next that moves to the following row without resetting x
next_no_reset(s) ==
    IF s.x < s.width /\ s.y < s.height
    THEN LET x1 == Inc16(s.x)
         IN  [st  |-> IF x1 = s.width
                      THEN [s EXCEPT !.x = x1, !.y = Inc16(s.y)]
                      ELSE [s EXCEPT !.x = x1],
              ret |-> Coord(s.x, s.y), ovf |-> FALSE]
    ELSE [st |-> s, ret |-> NoCoord, ovf |-> FALSE]

\* ImageIndex::next
next(s) ==
    IF s.x < s.width /\ s.y < s.height
    THEN LET a == Advance(s)
         IN  [st |-> a.st, ret |-> Coord(s.x, s.y), ovf |-> a.ovf]
    ELSE [st |-> s, ret |-> NoCoord, ovf |-> FALSE]

\* a size_hint that counts whole rows only, ignoring x
size_hint_rows(s) ==
    LET total == s.width * s.height
        done  == s.y * s.width
    IN  saturating_sub(total, done)

\* ImageIndex::size_hint (lower bound and upper bound are the same number)
size_hint(s) ==
    LET total == s.width * s.height
        done  == s.y * s.width + s.x
    IN  saturating_sub(total, done)

\* an nth that returns None past the end without moving to the end position
nth_no_terminal(s, n) ==
    LET total == s.width * s.height
        done  == s.y * s.width + s.x
    IN  IF n >= saturating_sub(total, done)
        THEN [st |-> s, ret |-> NoCoord, ovf |-> FALSE]
        ELSE LET linear == done + n
                 nx     == linear % s.width
                 a      == Advance([s EXCEPT !.x = nx])
             IN  [st |-> a.st, ret |-> Coord(nx, s.y), ovf |-> a.ovf]

\* ImageIndex::nth
nth(s, n) ==
    LET total == s.width * s.height
        done  == s.y * s.width + s.x
    IN  IF n >= saturating_sub(total, done)
        THEN [st |-> [s EXCEPT !.x = s.width, !.y = s.height], ret |-> NoCoord,
              ovf |-> FALSE]
        ELSE LET linear == done + n
                 nx     == linear % s.width
                 a      == Advance([s EXCEPT !.x = nx])
             IN  [st |-> a.st, ret |-> Coord(nx, s.y), ovf |-> a.ovf]

\* k calls of next, one after the other: the state reached and the last result
RECURSIVE NextTimes(_, _)
NextTimes(s, k) ==
    IF k <= 1 THEN next(s) ELSE NextTimes(next(s).st, k - 1)

\* what next yields from s until it returns None (at most fuel results)
RECURSIVE Drain(_, _)
Drain(s, fuel) ==
    LET c == next(s)
    IN  IF fuel = 0 \/ ~c.ret.some THEN <<>>
        ELSE <<c.ret>> \o Drain(c.st, fuel - 1)

IterDims == 0 .. MaxIterDim

\* the history of an iterator nothing was called on
NoCalls ==
    [yielded |-> <<>>, last |-> NoCoord, remBefore |-> 0, ncalls |-> 0,
     onlyNext |-> TRUE, lastOp |-> "none", lastN |-> 0, noneBefore |-> FALSE, overflow |-> FALSE]

IterInit ==
    /\ it \in {ImageIndexNew(w, h) : w \in IterDims, h \in IterDims}
    /\ hist = NoCalls
    /\ img = Unused /\ ret = Unused /\ io = Unused /\ pix = Unused

\* the record of one call: what it yielded and the remaining count before it
Called(c, byNext, n) ==
    [yielded   |-> IF c.ret.some THEN Append(hist.yielded, c.ret) ELSE hist.yielded,
     last      |-> c.ret,
     remBefore |-> size_hint(it),
     ncalls    |-> hist.ncalls + 1,
     onlyNext  |-> hist.onlyNext /\ byNext,
     lastOp    |-> IF byNext THEN "next" ELSE "nth",
     lastN     |-> n,
     noneBefore |-> hist.noneBefore \/ (hist.ncalls > 0 /\ ~hist.last.some),
     overflow  |-> hist.overflow \/ c.ovf]

ItNext ==
    /\ hist.ncalls < MaxCalls
    /\ LET c == next(it)
       IN  /\ it' = c.st
           /\ hist' = Called(c, TRUE, 0)
    /\ UNCHANGED <<img, ret, io, pix>>

ItNth(n) ==
    /\ hist.ncalls < MaxCalls
    /\ LET c == nth(it, n)
       IN  /\ it' = c.st
           /\ hist' = Called(c, FALSE, n)
    /\ UNCHANGED <<img, ret, io, pix>>

IterNext ==
    \/ ItNext
    \/ \E n \in 0 .. MaxN : ItNth(n)

IterSpec == IterInit /\ [][IterNext]_vars

\* the widest iterator dimension: u16::MAX
WideDim == U16 - 1

\* iterator dimensions up to the width of u16 (one of the two at most, so
\* that width*height stays a number the checker can hold)
WideDims ==
    {d \in (IterDims \cup {WideDim}) \X (IterDims \cup {WideDim}) :
        d[1] \in IterDims \/ d[2] \in IterDims}

\* arguments of nth that jump to the end of a row of u16::MAX columns
WideNs == (0 .. MaxN) \cup {WideDim - 2, WideDim - 1, WideDim, WideDim + 1}

IterWideInit ==
    /\ it \in {ImageIndexNew(d[1], d[2]) : d \in WideDims}
    /\ hist = NoCalls
    /\ img = Unused /\ ret = Unused /\ io = Unused /\ pix = Unused

IterWideNext ==
    \/ ItNext
    \/ \E n \in WideNs : ItNth(n)

IterWideSpec == IterWideInit /\ [][IterWideNext]_vars

\* C3: from every reachable iterator state and for every n, nth(n) returns
\* what n+1 calls of next return last, and leaves the same remaining count
\* and the same future output.
C3_NthEqualsNexts ==
    \A n \in 0 .. MaxN :
        LET a == nth(it, n)
            c == NextTimes(it, n + 1)
            fuel == it.width * it.height + 1
        IN  /\ a.ret = c.ret
            /\ size_hint(a.st) = size_hint(c.st)
            /\ Drain(a.st, fuel) = Drain(c.st, fuel)

\* C4: on a fresh iterator with width > 0 and height > 0 driven by next alone,
\* the k-th pair (from 0) is (k mod width, k div width), at most width*height
\* pairs are yielded, and None is returned only after exactly width*height.
C4_NextRowMajor ==
    (hist.onlyNext /\ it.width > 0 /\ it.height > 0) =>
        /\ Len(hist.yielded) <= it.width * it.height
        /\ \A k \in 1 .. Len(hist.yielded) :
              hist.yielded[k] = Coord((k - 1) % it.width, (k - 1) \div it.width)
        /\ (hist.ncalls > 0 /\ ~hist.last.some) =>
              Len(hist.yielded) = it.width * it.height
        /\ (hist.ncalls > 0 /\ hist.last.some) => hist.ncalls = Len(hist.yielded)

\* next alone has run a 2 x 2 iterator to exhaustion: four pairs, then None
C4_Witness ==
    /\ hist.onlyNext /\ it.width = 2 /\ it.height = 2
    /\ Len(hist.yielded) = 4 /\ hist.ncalls = 5 /\ ~hist.last.some
    /\ hist.yielded[3] = Coord(0, 1)

\* C10: under any sequence of next and nth calls no coordinate is yielded
\* twice, a call that yields strictly decreases the remaining count, and at
\* most width*height coordinates are yielded in total.
C10_NoRepeatAndDecreasing ==
    /\ \A i, j \in 1 .. Len(hist.yielded) :
          hist.yielded[i] = hist.yielded[j] => i = j
    /\ (hist.ncalls > 0 /\ hist.last.some) => size_hint(it) < hist.remBefore
    /\ Len(hist.yielded) <= it.width * it.height

(***************************************************************************)
(* The format codec (crate limg_core), modelled from its contract.         *)
(* A header is HEADER_SIZE bytes: the signature, width and height (u16,    *)
(* little endian), the transparent colour (u16, little endian), its        *)
(* present flag, and the pixel endianness.  The pixel plane follows, two   *)
(* bytes per pixel in the byte order the header names.                     *)
(***************************************************************************)
HEADER_SIZE == 12
PIXEL_BYTES == 2

Signature == <<76, 73, 77, 71>>

PixelEndians == {"Little", "Big"}

\* limg_core::ImageSpec
ImageSpec(w, h, tc, e) ==
    [width |-> w, height |-> h, transparent_color |-> tc, pixel_endian |-> e]

\* ImageSpec::num_pixels
num_pixels(spec) == spec.width * spec.height

\* ColorType::bytes_per_pixel, for ColorType::Rgb565
bytes_per_pixel == 2

\* limg_core::decoded_size, for ColorType::Rgb565: the byte length of the decoded plane
decoded_size(spec) == num_pixels(spec) * bytes_per_pixel

\* limg_core::encoded_size
encoded_size(spec) == HEADER_SIZE + num_pixels(spec) * PIXEL_BYTES

\* a u16 as two bytes, low byte first
LeBytes(v) == <<v % 256, v \div 256>>

\* the header block of spec
HeaderBytes(spec) ==
    Signature \o LeBytes(spec.width) \o LeBytes(spec.height)
        \o LeBytes(IF spec.transparent_color.some THEN spec.transparent_color.val ELSE 0)
        \o <<IF spec.transparent_color.some THEN 1 ELSE 0>>
        \o <<IF spec.pixel_endian = "Big" THEN 1 ELSE 0>>

Err(k) == [kind |-> k]

\* limg_core::decode_header.  Whether a header with a zero dimension is refused
\* is the codec's choice (rejectZero).
decode_header(buf, rejectZero) ==
    IF Len(buf) < HEADER_SIZE THEN [kind |-> "InputBufferTooSmall", spec |-> ImageSpec(0, 0, None, "Little")]
    ELSE IF SubSeq(buf, 1, 4) # Signature \/ buf[11] \notin {0, 1} \/ buf[12] \notin {0, 1}
    THEN [kind |-> "UnsupportedFormat", spec |-> ImageSpec(0, 0, None, "Little")]
    ELSE LET w == buf[5] + 256 * buf[6]
             h == buf[7] + 256 * buf[8]
             c == buf[9] + 256 * buf[10]
             spec == ImageSpec(w, h, IF buf[11] = 1 THEN Some(c) ELSE None,
                               IF buf[12] = 1 THEN "Big" ELSE "Little")
         IN  IF rejectZero /\ (w = 0 \/ h = 0)
             THEN [kind |-> "ZeroImageDimensions", spec |-> spec]
             ELSE [kind |-> "Ok", spec |-> spec]

\* limg_core::encode_header into a destination of buflen bytes: the result and
\* the header bytes written.  A zero dimension cannot be encoded; which of the
\* two checks comes first is the codec's choice (sizeFirst).
encode_header(buflen, spec, sizeFirst) ==
    LET small == buflen < HEADER_SIZE
        zero  == spec.width = 0 \/ spec.height = 0
    IN  IF small /\ (sizeFirst \/ ~zero) THEN [kind |-> "OutputBufferTooSmall", bytes |-> <<>>]
        ELSE IF zero THEN [kind |-> "ZeroImageDimensions", bytes |-> <<>>]
        ELSE [kind |-> "Ok", bytes |-> HeaderBytes(spec)]

\* one pixel of the wire plane as its u16
WireToPixel(lo, hi, e) == IF e = "Big" THEN lo * 256 + hi ELSE lo + 256 * hi

\* one pixel as its two wire bytes
PixelToWire(v, e) == IF e = "Big" THEN <<v \div 256, v % 256>> ELSE <<v % 256, v \div 256>>

RECURSIVE Flatten(_)
Flatten(ss) == IF ss = <<>> THEN <<>> ELSE Head(ss) \o Flatten(Tail(ss))

\* limg_core::decode_data, for ColorType::Rgb565: data is the wire plane,
\* destLen the byte length of the destination; the result and the pixels decoded
decode_data(data, destLen, spec) ==
    LET n == num_pixels(spec)
    IN  IF Len(data) < n * PIXEL_BYTES THEN [kind |-> "InputBufferTooSmall", pixels |-> <<>>]
        ELSE IF destLen < decoded_size(spec) THEN [kind |-> "OutputBufferTooSmall", pixels |-> <<>>]
        ELSE [kind |-> "Ok",
              pixels |-> [i \in 1 .. n |->
                             WireToPixel(data[2 * i - 1], data[2 * i], spec.pixel_endian)]]

\* limg_core::encode_data, for ColorType::Rgb565: data is the pixels given,
\* destLen the byte length of the destination; the result and the bytes written
encode_data(data, destLen, spec) ==
    LET n == num_pixels(spec)
    IN  IF Len(data) < n THEN [kind |-> "InputBufferTooSmall", bytes |-> <<>>]
        ELSE IF destLen < n * PIXEL_BYTES THEN [kind |-> "OutputBufferTooSmall", bytes |-> <<>>]
        ELSE [kind |-> "Ok",
              bytes |-> Flatten([i \in 1 .. n |-> PixelToWire(data[i], spec.pixel_endian)])]

(***************************************************************************)
(* Image (src/src/image.rs): [width, height, transparent_color, pixels],   *)
(* pixels a sequence of packed values (index i of the code is i + 1 here). *)
(***************************************************************************)
\* image_index
image_index(x, y, width) == y * width + x

\* vec![Pixel::BLACK; n]
Blank(n) == [i \in 1 .. n |-> BLACK]

\* Image::new
new(width, height) ==
    [width |-> width, height |-> height, transparent_color |-> None,
     pixels |-> Blank(width * height)]

\* Image::with_transparent_color
with_transparent_color(width, height, color) ==
    [width |-> width, height |-> height, transparent_color |-> Some(color),
     pixels |-> Blank(width * height)]

\* Image::coordinates
coordinates(im) == ImageIndexNew(im.width, im.height)

\* Image::set_transparent_color
set_transparent_color(im, tc) == [im EXCEPT !.transparent_color = tc]

\* Image::fill
fill(im, pixel) == [im EXCEPT !.pixels = [i \in 1 .. Len(im.pixels) |-> pixel]]

\* slice::get_unchecked: past the end of the buffer the read is undefined
\* behaviour, and yields whatever the memory there holds (junk)
get_unchecked(pixels, idx, junk) ==
    IF idx < Len(pixels) THEN [val |-> pixels[idx + 1], oob |-> FALSE]
    ELSE [val |-> junk, oob |-> TRUE]

\* the result of an accessor: Some(reference to index idx), None, or a panic
Access(kind, idx, val, oob) == [kind |-> kind, idx |-> idx, val |-> val, oob |-> oob]

\* Image::get_pixel
get_pixel(im, x, y, junk) ==
    IF x < im.width \/ y < im.height
    THEN LET idx == image_index(x, y, im.width)
             c   == get_unchecked(im.pixels, idx, junk)
         IN  Access("Some", idx, c.val, c.oob)
    ELSE Access("None", 0, 0, FALSE)

\* Image::get_pixel_mut: the reference it returns, as get_pixel
get_pixel_mut(im, x, y, junk) ==
    IF x < im.width \/ y < im.height
    THEN LET idx == image_index(x, y, im.width)
             c   == get_unchecked(im.pixels, idx, junk)
         IN  Access("Some", idx, c.val, c.oob)
    ELSE Access("None", 0, 0, FALSE)

\* impl Index<(u16, u16)>: the slice index panics past the end of the buffer
index(im, x, y) ==
    LET idx == image_index(x, y, im.width)
    IN  IF idx < Len(im.pixels) THEN Access("Some", idx, im.pixels[idx + 1], FALSE)
        ELSE Access("Panic", idx, 0, FALSE)

\* impl IndexMut<(u16, u16)>
index_mut(im, x, y) ==
    LET idx == image_index(x, y, im.width)
    IN  IF idx < Len(im.pixels) THEN Access("Some", idx, im.pixels[idx + 1], FALSE)
        ELSE Access("Panic", idx, 0, FALSE)

\* a write of pixel through the reference an accessor returned; a reference
\* past the end of the buffer writes outside the image
WriteThrough(im, a, pixel) ==
    IF a.kind = "Some" /\ ~a.oob
    THEN [im EXCEPT !.pixels = [im.pixels EXCEPT ![a.idx + 1] = pixel]]
    ELSE im

\* the pixels of a decoded image: a box of boxLen pixels, of which decode_data
\* initialised the first Len(decoded); the rest is uninitialised memory (mem)
Decoded(boxLen, decoded, mem) ==
    [i \in 1 .. boxLen |-> IF i <= Len(decoded) THEN decoded[i] ELSE mem[i]]

NoImage == new(0, 0)

\* Image::from_buffer
from_buffer(buf, rejectZero, mem) ==
    LET hd == decode_header(buf, rejectZero)
    IN  IF hd.kind # "Ok" THEN [kind |-> hd.kind, image |-> NoImage]
        ELSE LET spec        == hd.spec
                 pixels_size == decoded_size(spec)
                 dd == decode_data(SubSeq(buf, HEADER_SIZE + 1, Len(buf)), pixels_size, spec)
             IN  IF dd.kind # "Ok" THEN [kind |-> dd.kind, image |-> NoImage]
                 ELSE [kind |-> "Ok",
                       image |-> [width |-> spec.width, height |-> spec.height,
                                  transparent_color |-> spec.transparent_color,
                                  pixels |-> Decoded(pixels_size, dd.pixels, mem)]]

\* Image::from_read, the reader holding the bytes reader
from_read(reader, rejectZero, mem) ==
    IF Len(reader) < HEADER_SIZE THEN [kind |-> "IoError", image |-> NoImage]
    ELSE
    LET hd == decode_header(SubSeq(reader, 1, HEADER_SIZE), rejectZero)
    IN  IF hd.kind # "Ok" THEN [kind |-> hd.kind, image |-> NoImage]
        ELSE LET spec      == hd.spec
                 data_size == num_pixels(spec) * PIXEL_BYTES
             IN  IF Len(reader) - HEADER_SIZE < data_size
                 THEN [kind |-> "IoError", image |-> NoImage]
                 ELSE
                 LET data_slice  == SubSeq(reader, HEADER_SIZE + 1, HEADER_SIZE + data_size)
                     pixels_size == decoded_size(spec)
                     dd == decode_data(data_slice, pixels_size, spec)
                 IN  IF dd.kind # "Ok" THEN [kind |-> dd.kind, image |-> NoImage]
                     ELSE [kind |-> "Ok",
                           image |-> [width |-> spec.width, height |-> spec.height,
                                      transparent_color |-> spec.transparent_color,
                                      pixels |-> Decoded(pixels_size \div bytes_per_pixel,
                                                         dd.pixels, mem)]]

\* Image::open: File::open, then from_read of the file's bytes
open(file, openFails, rejectZero, mem) ==
    IF openFails THEN [kind |-> "IoError", image |-> NoImage]
    ELSE from_read(file, rejectZero, mem)

\* the pixel buffer viewed as the bytes of its first num_pixels pixels
data_slice(im, spec) == SubSeq(im.pixels, 1, num_pixels(spec))

\* a to_buffer_with_endian that does not propagate encode_data's error
to_buffer_with_endian_unchecked(im, buflen, endian, sizeFirst) ==
    LET spec == ImageSpec(im.width, im.height, im.transparent_color, endian)
        eh   == encode_header(buflen, spec, sizeFirst)
    IN  IF eh.kind # "Ok" THEN [kind |-> eh.kind, out |-> <<>>]
        ELSE LET ed == encode_data(data_slice(im, spec), buflen - HEADER_SIZE, spec)
             IN  [kind |-> "Ok", out |-> eh.bytes \o ed.bytes]

\* Image::to_buffer_with_endian into a buffer of buflen bytes: the result and
\* the bytes written, from the start of the buffer
to_buffer_with_endian(im, buflen, endian, sizeFirst) ==
    LET spec == ImageSpec(im.width, im.height, im.transparent_color, endian)
        eh   == encode_header(buflen, spec, sizeFirst)
    IN  IF eh.kind # "Ok" THEN [kind |-> eh.kind, out |-> <<>>]
        ELSE LET ed == encode_data(data_slice(im, spec), buflen - HEADER_SIZE, spec)
             IN  IF ed.kind # "Ok" THEN [kind |-> ed.kind, out |-> eh.bytes]
                 ELSE [kind |-> "Ok", out |-> eh.bytes \o ed.bytes]

\* Image::to_buffer
to_buffer(im, buflen, sizeFirst) == to_buffer_with_endian(im, buflen, "Little", sizeFirst)

\* a writer nothing has been written to
NewSink == [written |-> <<>>, ops |-> <<>>, flushed |-> FALSE, created |-> FALSE]

\* Write::write_all then Write::flush of buf on sink; outcome names the call
\* that fails, if any, and how many bytes a failing write_all had written
WriteAndFlush(sink, buf, outcome) ==
    IF outcome.fail = "write"
    THEN [kind |-> "IoError",
          sink |-> [sink EXCEPT !.written = @ \o SubSeq(buf, 1, Min(outcome.k, Len(buf) - 1)),
                                !.ops = Append(@, "write_all")]]
    ELSE IF outcome.fail = "flush"
    THEN [kind |-> "IoError",
          sink |-> [sink EXCEPT !.written = @ \o buf,
                                !.ops = @ \o <<"write_all", "flush">>]]
    ELSE [kind |-> "Ok",
          sink |-> [sink EXCEPT !.written = @ \o buf,
                                !.ops = @ \o <<"write_all", "flush">>,
                                !.flushed = TRUE]]

\* a to_write_with_endian that always encodes little endian, as save does
to_write_with_endian_little(im, sink, endian, sizeFirst, outcome) ==
    LET spec     == ImageSpec(im.width, im.height, im.transparent_color, "Little")
        buf_size == encoded_size(spec)
        eh       == encode_header(buf_size, spec, sizeFirst)
    IN  IF eh.kind # "Ok" THEN [kind |-> eh.kind, sink |-> sink]
        ELSE LET ed == encode_data(data_slice(im, spec), buf_size - HEADER_SIZE, spec)
             IN  IF ed.kind # "Ok" THEN [kind |-> ed.kind, sink |-> sink]
                 ELSE WriteAndFlush(sink, eh.bytes \o ed.bytes, outcome)

\* a to_write_with_endian that returns Ok after write_all, without flushing
to_write_with_endian_no_flush(im, sink, endian, sizeFirst, outcome) ==
    LET spec     == ImageSpec(im.width, im.height, im.transparent_color, endian)
        buf_size == encoded_size(spec)
        eh       == encode_header(buf_size, spec, sizeFirst)
    IN  IF eh.kind # "Ok" THEN [kind |-> eh.kind, sink |-> sink]
        ELSE LET ed == encode_data(data_slice(im, spec), buf_size - HEADER_SIZE, spec)
             IN  IF ed.kind # "Ok" THEN [kind |-> ed.kind, sink |-> sink]
                 ELSE IF outcome.fail = "write"
                 THEN WriteAndFlush(sink, eh.bytes \o ed.bytes, outcome)
                 ELSE [kind |-> "Ok",
                       sink |-> [sink EXCEPT !.written = @ \o eh.bytes \o ed.bytes,
                                             !.ops = Append(@, "write_all")]]

\* Image::to_write_with_endian on the writer sink
to_write_with_endian(im, sink, endian, sizeFirst, outcome) ==
    LET spec     == ImageSpec(im.width, im.height, im.transparent_color, endian)
        buf_size == encoded_size(spec)
        eh       == encode_header(buf_size, spec, sizeFirst)
    IN  IF eh.kind # "Ok" THEN [kind |-> eh.kind, sink |-> sink]
        ELSE LET ed == encode_data(data_slice(im, spec), buf_size - HEADER_SIZE, spec)
             IN  IF ed.kind # "Ok" THEN [kind |-> ed.kind, sink |-> sink]
                 ELSE WriteAndFlush(sink, eh.bytes \o ed.bytes, outcome)

\* Image::to_write
to_write(im, sink, sizeFirst, outcome) ==
    to_write_with_endian(im, sink, "Little", sizeFirst, outcome)

\* Image::save_with_endian: File::create (which empties the file), then
\* to_write_with_endian on the file
save_with_endian(im, sink, createFails, endian, sizeFirst, outcome) ==
    IF createFails THEN [kind |-> "IoError", sink |-> sink]
    ELSE to_write_with_endian(im, [NewSink EXCEPT !.created = TRUE], endian, sizeFirst, outcome)

\* Image::save
save(im, sink, createFails, sizeFirst, outcome) ==
    IF createFails THEN [kind |-> "IoError", sink |-> sink]
    ELSE to_write_with_endian(im, [NewSink EXCEPT !.created = TRUE], "Little", sizeFirst, outcome)

(***************************************************************************)
(* The life of one Image: built by a constructor or a decoder, then        *)
(* read and written through its accessors.                                 *)
(***************************************************************************)
\* the coordinates the accessors are called with: inside and just outside
Coords == 0 .. MaxDim + 1

\* the dimensions of a constructed image
ImageDims == {d \in (0 .. MaxDim) \X (0 .. MaxDim) : d[1] * d[2] <= MaxPixels}

\* the pixels written by the mutators
PixelVals == {BLACK, WHITE}

\* what uninitialised or out-of-buffer memory may hold
UninitVals == {BLACK, WHITE}

\* the transparent colours used
TransparentVals == {None, Some(WHITE)}

\* the bytes of the pixel planes decoded in the life of an Image
PlaneBytes == {0, 255}

\* the byte strings decoded in the life of an Image: a header and its plane
DecodeInputs ==
    UNION {{HeaderBytes(ImageSpec(d[1], d[2], tc, e)) \o data :
                data \in [1 .. d[1] * d[2] * PIXEL_BYTES -> PlaneBytes]} :
           d \in {dd \in ImageDims : dd[1] * dd[2] <= MaxDecodePixels},
           tc \in TransparentVals, e \in PixelEndians}

\* the contents of the memory a decoder's box is allocated in
UninitMem == [1 .. 2 * MaxDecodePixels -> UninitVals]

\* the record of the last call on the image
Call(op, x, y, a, changed) ==
    [op |-> op, x |-> x, y |-> y, kind |-> a.kind, idx |-> a.idx, val |-> a.val,
     oob |-> a.oob, changed |-> changed]

Built(op) == Call(op, 0, 0, Access("Ok", 0, 0, FALSE), FALSE)

Init ==
    /\ \/ \E d \in ImageDims : img = new(d[1], d[2]) /\ ret = Built("new")
       \/ \E d \in ImageDims, c \in PixelVals :
             img = with_transparent_color(d[1], d[2], c) /\ ret = Built("with_transparent_color")
       \/ \E buf \in DecodeInputs, rz \in BOOLEAN, mem \in UninitMem :
             LET res == from_buffer(buf, rz, mem)
             IN  res.kind = "Ok" /\ img = res.image /\ ret = Built("from_buffer")
       \/ \E buf \in DecodeInputs, rz \in BOOLEAN, mem \in UninitMem :
             LET res == from_read(buf, rz, mem)
             IN  res.kind = "Ok" /\ img = res.image /\ ret = Built("from_read")
    /\ io = Unused /\ it = Unused /\ hist = Unused /\ pix = Unused

SetTransparentColor(tc) ==
    /\ img' = set_transparent_color(img, tc)
    /\ ret' = Call("set_transparent_color", 0, 0, Access("Ok", 0, 0, FALSE), FALSE)
    /\ UNCHANGED <<io, it, hist, pix>>

Fill(pixel) ==
    /\ img' = fill(img, pixel)
    /\ ret' = Call("fill", 0, 0, Access("Ok", 0, 0, FALSE), img'.pixels # img.pixels)
    /\ UNCHANGED <<io, it, hist, pix>>

\* image.pixels_mut()[i] = pixel, i inside the slice
PixelsMut(i, pixel) ==
    /\ i < Len(img.pixels)
    /\ img' = [img EXCEPT !.pixels = [img.pixels EXCEPT ![i + 1] = pixel]]
    /\ ret' = Call("pixels_mut", 0, 0, Access("Some", i, img.pixels[i + 1], FALSE),
                   img'.pixels # img.pixels)
    /\ UNCHANGED <<io, it, hist, pix>>

GetPixel(x, y, junk) ==
    /\ ret' = Call("get_pixel", x, y, get_pixel(img, x, y, junk), FALSE)
    /\ UNCHANGED <<img, io, it, hist, pix>>

\* *image.get_pixel_mut(x, y) = pixel, when it returns a reference
GetPixelMut(x, y, pixel, junk) ==
    /\ LET a == get_pixel_mut(img, x, y, junk)
       IN  /\ img' = WriteThrough(img, a, pixel)
           /\ ret' = Call("get_pixel_mut", x, y, a, img'.pixels # img.pixels)
    /\ UNCHANGED <<io, it, hist, pix>>

\* image[(x, y)]
Index(x, y) ==
    /\ ret' = Call("index", x, y, index(img, x, y), FALSE)
    /\ UNCHANGED <<img, io, it, hist, pix>>

\* image[(x, y)] = pixel
IndexMut(x, y, pixel) ==
    /\ LET a == index_mut(img, x, y)
       IN  /\ img' = WriteThrough(img, a, pixel)
           /\ ret' = Call("index_mut", x, y, a, img'.pixels # img.pixels)
    /\ UNCHANGED <<io, it, hist, pix>>

Next ==
    \/ \E tc \in TransparentVals : SetTransparentColor(tc)
    \/ \E pixel \in PixelVals : Fill(pixel)
    \/ \E i \in 0 .. 2 * MaxPixels, pixel \in PixelVals : PixelsMut(i, pixel)
    \/ \E x \in Coords, y \in Coords, junk \in UninitVals : GetPixel(x, y, junk)
    \/ \E x \in Coords, y \in Coords, pixel \in PixelVals, junk \in UninitVals :
          GetPixelMut(x, y, pixel, junk)
    \/ \E x \in Coords, y \in Coords : Index(x, y)
    \/ \E x \in Coords, y \in Coords, pixel \in PixelVals : IndexMut(x, y, pixel)

Spec == Init /\ [][Next]_vars

\* C1: every Image holds exactly width * height pixels.
C1_PixelsLenIsWidthTimesHeight ==
    Len(img.pixels) = img.width * img.height

\* C2: get_pixel and get_pixel_mut return None whenever x >= width or
\* y >= height, return the pixel at index y*width + x when x < width and
\* y < height, and never read outside the pixel buffer.
C2_GetPixelBoundsChecked ==
    ret.op \in {"get_pixel", "get_pixel_mut"} =>
        /\ (ret.x >= img.width \/ ret.y >= img.height) => ret.kind = "None"
        /\ (ret.x < img.width /\ ret.y < img.height) =>
              ret.kind = "Some" /\ ret.idx = ret.y * img.width + ret.x
        /\ ~ret.oob

\* C6: image[(x, y)], read or written, panics and modifies nothing whenever
\* x >= width or y >= height, and accesses index y*width + x otherwise.
C6_IndexBoundsCheckedPerCoordinate ==
    ret.op \in {"index", "index_mut"} =>
        /\ (ret.x >= img.width \/ ret.y >= img.height) =>
              ret.kind = "Panic" /\ ~ret.changed
        /\ (ret.x < img.width /\ ret.y < img.height) =>
              ret.kind = "Some" /\ ret.idx = ret.y * img.width + ret.x

(***************************************************************************)
(* Decoding and encoding: a byte string is decoded into an Image (or an    *)
(* Image is constructed), and the Image is encoded once, into a buffer or  *)
(* onto a writer.                                                          *)
(***************************************************************************)
\* the dimensions of the images encoded and decoded
CodecDims == {d \in ImageDims : d[1] * d[2] <= MaxCodecPixels}

\* the bytes of the pixel planes decoded
CodecBytes == {18, 52}

\* the transparent colours of the headers decoded
CodecTransparent == {None, Some(4660)}

\* the well-formed byte strings: a header, then exactly width*height pixels
WellFormed ==
    UNION {{HeaderBytes(ImageSpec(d[1], d[2], tc, e)) \o data :
                data \in [1 .. d[1] * d[2] * PIXEL_BYTES -> CodecBytes]} :
           d \in CodecDims, tc \in CodecTransparent, e \in PixelEndians}

\* the byte strings decoded: the well-formed ones, and those cut one byte
\* short, followed by one byte more, or with a wrong signature
CodecInputs ==
    WellFormed
        \cup {SubSeq(bs, 1, Len(bs) - 1) : bs \in WellFormed}
        \cup {Append(bs, 18) : bs \in WellFormed}
        \cup {[bs EXCEPT ![1] = 0] : bs \in WellFormed}

\* the memory a decoder's box is allocated in
CodecMem == {[i \in 1 .. 2 * MaxPixels |-> v] : v \in UninitVals}

\* the lengths of the destination buffers, around the encoded size
BufLens(exact) == {0, HEADER_SIZE - 1, HEADER_SIZE, exact - 1, exact, exact + 1}

\* how the writer behaves: no failure, a write_all failing after k bytes, or
\* a failing flush
IoOutcomes(exact) ==
    {[fail |-> "none", k |-> 0], [fail |-> "flush", k |-> 0]}
        \cup {[fail |-> "write", k |-> k] : k \in {0, 1, HEADER_SIZE, exact - 1}}

\* the record of the last codec call
Done(op, kind, endian, buflen, out, fail) ==
    [op |-> op, kind |-> kind, endian |-> endian, buflen |-> buflen, out |-> out,
     fail |-> fail]

NotCalled == Done("none", "Ok", "Little", 0, <<>>, "none")

\* no encoded buffer has been decoded
NotDecoded == [op |-> "none", kind |-> "Ok", image |-> NoImage]

CodecInit ==
    /\ \/ \E buf \in CodecInputs :
             /\ io = [phase |-> "input", src |-> buf, via |-> "none", sink |-> NewSink,
                      back |-> NotDecoded]
             /\ img = NoImage
       \/ \E d \in CodecDims :
             /\ io = [phase |-> "image", src |-> <<>>, via |-> "new", sink |-> NewSink,
                      back |-> NotDecoded]
             /\ img = new(d[1], d[2])
       \/ \E d \in CodecDims, c \in PixelVals :
             /\ io = [phase |-> "image", src |-> <<>>, via |-> "with_transparent_color",
                      sink |-> NewSink, back |-> NotDecoded]
             /\ img = with_transparent_color(d[1], d[2], c)
    /\ ret = NotCalled
    /\ it = Unused /\ hist = Unused /\ pix = Unused

\* the state after a decoder returned res
DecodedBy(op, res) ==
    /\ img' = res.image
    /\ io' = [io EXCEPT !.phase = IF res.kind = "Ok" THEN "image" ELSE "done", !.via = op]
    /\ ret' = Done(op, res.kind, "Little", 0, <<>>, "none")
    /\ UNCHANGED <<it, hist, pix>>

FromBuffer(rejectZero, mem) ==
    /\ io.phase = "input"
    /\ DecodedBy("from_buffer", from_buffer(io.src, rejectZero, mem))

FromRead(rejectZero, mem) ==
    /\ io.phase = "input"
    /\ DecodedBy("from_read", from_read(io.src, rejectZero, mem))

Open(openFails, rejectZero, mem) ==
    /\ io.phase = "input"
    /\ DecodedBy("open", open(io.src, openFails, rejectZero, mem))

\* the byte length of the image's encoding
Exact == HEADER_SIZE + img.width * img.height * PIXEL_BYTES

\* the state after an encoder into a buffer returned res
EncodedInto(op, endian, buflen, res) ==
    /\ io' = [io EXCEPT !.phase = "done"]
    /\ ret' = Done(op, res.kind, endian, buflen, res.out, "none")
    /\ UNCHANGED <<img, it, hist, pix>>

ToBufferWithEndian(buflen, endian, sizeFirst) ==
    /\ io.phase = "image"
    /\ EncodedInto("to_buffer_with_endian", endian, buflen,
                   to_buffer_with_endian(img, buflen, endian, sizeFirst))

ToBuffer(buflen, sizeFirst) ==
    /\ io.phase = "image"
    /\ EncodedInto("to_buffer", "Little", buflen, to_buffer(img, buflen, sizeFirst))

\* the state after an encoder onto a writer returned res
WrittenTo(op, endian, fail, res) ==
    /\ io' = [io EXCEPT !.phase = "done", !.sink = res.sink]
    /\ ret' = Done(op, res.kind, endian, 0, <<>>, fail)
    /\ UNCHANGED <<img, it, hist, pix>>

ToWriteWithEndian(endian, sizeFirst, outcome) ==
    /\ io.phase = "image"
    /\ WrittenTo("to_write_with_endian", endian, outcome.fail,
                 to_write_with_endian(img, io.sink, endian, sizeFirst, outcome))

ToWrite(sizeFirst, outcome) ==
    /\ io.phase = "image"
    /\ WrittenTo("to_write", "Little", outcome.fail,
                 to_write(img, io.sink, sizeFirst, outcome))

Save(createFails, sizeFirst, outcome) ==
    /\ io.phase = "image"
    /\ WrittenTo("save", "Little", IF createFails THEN "create" ELSE outcome.fail,
                 save(img, io.sink, createFails, sizeFirst, outcome))

SaveWithEndian(createFails, endian, sizeFirst, outcome) ==
    /\ io.phase = "image"
    /\ WrittenTo("save_with_endian", endian, IF createFails THEN "create" ELSE outcome.fail,
                 save_with_endian(img, io.sink, createFails, endian, sizeFirst, outcome))

\* the last call filled a buffer of exactly the encoded size
EncodedExactly ==
    /\ io.phase = "done"
    /\ ret.op \in {"to_buffer_with_endian", "to_buffer"}
    /\ ret.kind = "Ok" /\ ret.buflen = Exact

\* the state after a decoder of the encoded buffer returned res
DecodedBack(op, res) ==
    /\ io' = [io EXCEPT !.phase = "redecoded",
                        !.back = [op |-> op, kind |-> res.kind, image |-> res.image]]
    /\ UNCHANGED <<img, ret, it, hist, pix>>

FromBufferEncoded(rejectZero, mem) ==
    /\ EncodedExactly
    /\ DecodedBack("from_buffer", from_buffer(ret.out, rejectZero, mem))

FromReadEncoded(rejectZero, mem) ==
    /\ EncodedExactly
    /\ DecodedBack("from_read", from_read(ret.out, rejectZero, mem))

CodecNext ==
    \/ \E rz \in BOOLEAN, mem \in CodecMem : FromBuffer(rz, mem)
    \/ \E rz \in BOOLEAN, mem \in CodecMem : FromRead(rz, mem)
    \/ \E of \in BOOLEAN, rz \in BOOLEAN, mem \in CodecMem : Open(of, rz, mem)
    \/ \E buflen \in BufLens(Exact), e \in PixelEndians, sf \in BOOLEAN :
          ToBufferWithEndian(buflen, e, sf)
    \/ \E buflen \in BufLens(Exact), sf \in BOOLEAN : ToBuffer(buflen, sf)
    \/ \E e \in PixelEndians, sf \in BOOLEAN, o \in IoOutcomes(Exact) :
          ToWriteWithEndian(e, sf, o)
    \/ \E sf \in BOOLEAN, o \in IoOutcomes(Exact) : ToWrite(sf, o)
    \/ \E cf \in BOOLEAN, sf \in BOOLEAN, o \in IoOutcomes(Exact) : Save(cf, sf, o)
    \/ \E cf \in BOOLEAN, e \in PixelEndians, sf \in BOOLEAN, o \in IoOutcomes(Exact) :
          SaveWithEndian(cf, e, sf, o)
    \/ \E rz \in BOOLEAN, mem \in CodecMem : FromBufferEncoded(rz, mem)
    \/ \E rz \in BOOLEAN, mem \in CodecMem : FromReadEncoded(rz, mem)

CodecSpec == CodecInit /\ [][CodecNext]_vars

\* the header of the decoded byte string, as the round-trip tests read it
SrcHeader == decode_header(io.src, FALSE)

\* the decoded byte string is a header with non-zero dimensions followed by
\* exactly width*height two-byte pixels
SrcValid ==
    /\ SrcHeader.kind = "Ok"
    /\ SrcHeader.spec.width > 0 /\ SrcHeader.spec.height > 0
    /\ Len(io.src) = HEADER_SIZE + num_pixels(SrcHeader.spec) * PIXEL_BYTES

\* C5: a valid byte string decoded by from_read (or open) and encoded by
\* to_write_with_endian with the endianness of its header, on a writer that
\* does not fail, is written back byte for byte.
C5_RoundTripIdentity ==
    (/\ ret.op = "to_write_with_endian"
     /\ io.via \in {"from_read", "open"}
     /\ SrcValid
     /\ ret.endian = SrcHeader.spec.pixel_endian
     /\ ret.fail = "none") =>
        /\ ret.kind = "Ok"
        /\ io.sink.written = io.src

\* a big-endian 1 x 2 image with a transparent colour has made the round trip
C5_Witness ==
    /\ ret.op = "to_write_with_endian" /\ io.via = "from_read" /\ SrcValid
    /\ ret.endian = "Big" /\ SrcHeader.spec.pixel_endian = "Big"
    /\ SrcHeader.spec.transparent_color.some
    /\ img.width = 1 /\ img.height = 2 /\ img.pixels = <<4660, 13330>>
    /\ ret.kind = "Ok" /\ io.sink.written = io.src

\* what C7 says of one call of to_buffer_with_endian or to_buffer
BufferSizing ==
    /\ ret.buflen = Exact => ret.kind = "Ok"
    /\ ret.buflen = Exact - 1 => ret.kind = "OutputBufferTooSmall"
    /\ Len(ret.out) <= ret.buflen

\* C7 as stated: for every Image, encoding into a buffer of exactly
\* HEADER_SIZE + width*height*PIXEL_BYTES bytes succeeds, into a buffer one
\* byte shorter fails with OutputBufferTooSmall, and nothing is written past
\* the end of the buffer.
C7_BufferSizingEveryImage ==
    ret.op \in {"to_buffer_with_endian", "to_buffer"} => BufferSizing

\* C7 as amended: the same for every Image with width > 0 and height > 0.
C7_BufferSizingNonZero ==
    (ret.op \in {"to_buffer_with_endian", "to_buffer"} /\ img.width > 0 /\ img.height > 0) =>
        BufferSizing

\* a 2 x 1 image was encoded big endian into a buffer one byte too short:
\* the header was written, the pixel plane was not
C7_Witness ==
    /\ ret.op = "to_buffer_with_endian" /\ ret.endian = "Big"
    /\ img.width = 2 /\ img.height = 1
    /\ ret.buflen = Exact - 1 /\ ret.kind = "OutputBufferTooSmall"
    /\ Len(ret.out) = HEADER_SIZE

WriterOps == {"to_write_with_endian", "to_write", "save", "save_with_endian"}

EncodeErrors ==
    {"ZeroImageDimensions", "InputBufferTooSmall", "OutputBufferTooSmall", "UnsupportedFormat"}

\* C9: the writer is touched only after the whole image has been encoded: an
\* encoding failure writes nothing; Ok means one write_all of the complete
\* HEADER_SIZE + width*height*PIXEL_BYTES bytes followed by a flush; flush is
\* called only after the complete write; a failing write or flush is
\* returned as the I/O error.
C9_WriteAfterEncodeThenFlush ==
    ret.op \in WriterOps =>
        /\ ret.kind \in EncodeErrors => io.sink.ops = <<>> /\ io.sink.written = <<>>
        /\ ret.kind = "Ok" =>
              /\ io.sink.ops = <<"write_all", "flush">>
              /\ io.sink.flushed
              /\ Len(io.sink.written) = Exact
              /\ io.sink.written =
                    to_buffer_with_endian(img, Exact, ret.endian, TRUE).out
        /\ io.sink.ops \in {<<>>, <<"write_all">>, <<"write_all", "flush">>}
        /\ Len(io.sink.ops) = 2 => Len(io.sink.written) = Exact
        /\ ret.fail \in {"write", "flush"} /\ ret.kind \notin EncodeErrors =>
              ret.kind = "IoError"
        /\ ret.kind \in EncodeErrors \cup {"Ok", "IoError"}

\* save wrote a whole 1 x 2 image and the flush then failed
C9_Witness ==
    /\ ret.op = "save" /\ ret.fail = "flush" /\ ret.kind = "IoError"
    /\ img.width = 1 /\ img.height = 2
    /\ io.sink.ops = <<"write_all", "flush">> /\ ~io.sink.flushed
    /\ Len(io.sink.written) = HEADER_SIZE + 4

(***************************************************************************)
(* The channel writes and reads of Pixel.                                  *)
(***************************************************************************)
\* the three bit fields of a packed value
Field5R(p) == p \div 2048
Field6G(p) == (p \div 32) % 64
Field5B(p) == p % 32

\* C11: set_r(v) stores v >> 3 in bits 11-15 and leaves bits 0-10 unchanged;
\* set_g(v) stores v >> 2 in bits 5-10 and leaves bits 0-4 and 11-15
\* unchanged; set_b(v) stores v >> 3 in bits 0-4 and leaves bits 5-15 unchanged.
C11_SettersSpliceOneField ==
    /\ pix.op = "set_r" =>
          /\ Field5R(pix.p) = pix.arg \div 8
          /\ pix.p % 2048 = pix.prev % 2048
    /\ pix.op = "set_g" =>
          /\ Field6G(pix.p) = pix.arg \div 4
          /\ Field5B(pix.p) = Field5B(pix.prev)
          /\ Field5R(pix.p) = Field5R(pix.prev)
    /\ pix.op = "set_b" =>
          /\ Field5B(pix.p) = pix.arg \div 8
          /\ pix.p \div 32 = pix.prev \div 32

\* set_b(8) has replaced a full blue field and kept the red and green of 0x1234
C11_Witness ==
    /\ pix.op = "set_b" /\ pix.arg = 8
    /\ Field5B(pix.prev) = 31 /\ Field5R(pix.prev) = 2 /\ Field6G(pix.prev) = 17
    /\ pix.p = 2 * 2048 + 17 * 32 + 1

\* C12: r, g and b widen their field by bit replication with no overflow in
\* u8: r = (r5 << 3) | (r5 >> 2), g = (g6 << 2) | (g6 >> 4),
\* b = (b5 << 3) | (b5 >> 2); a full field reads 255, a zero field reads 0,
\* and into_rgb is [r, g, b].
C12_GettersReplicateBits ==
    LET r5 == Field5R(pix.p)
        g6 == Field6G(pix.p)
        b5 == Field5B(pix.p)
    IN  /\ pix.op = "r" =>
              /\ pix.out = <<r5 * 8 + r5 \div 4>>
              /\ r5 = 31 => pix.out = <<255>>
              /\ r5 = 0 => pix.out = <<0>>
        /\ pix.op = "g" =>
              /\ pix.out = <<g6 * 4 + g6 \div 16>>
              /\ g6 = 63 => pix.out = <<255>>
              /\ g6 = 0 => pix.out = <<0>>
        /\ pix.op = "b" =>
              /\ pix.out = <<b5 * 8 + b5 \div 4>>
              /\ b5 = 31 => pix.out = <<255>>
              /\ b5 = 0 => pix.out = <<0>>
        /\ pix.op = "into_rgb" => pix.out = <<r(pix.p), g(pix.p), b(pix.p)>>
        /\ pix.op \in {"r", "g", "b", "into_rgb"} =>
              \A i \in 1 .. Len(pix.out) : pix.out[i] \in 0 .. 255

\* into_rgb of MAGENTA reads full red, no green and full blue
C12_Witness ==
    /\ pix.op = "into_rgb" /\ pix.p = MAGENTA /\ pix.out = <<255, 0, 255>>

(***************************************************************************)
(* The remaining count and the exhaustion of ImageIndex.                   *)
(***************************************************************************)
\* the number of coordinates further next calls yield before returning None
Remaining(s) == Len(Drain(s, s.width * s.height + 1))

\* C13 as stated: in every reachable iterator state size_hint is
\* width*height - (y*width + x), and that is the number of coordinates
\* further next calls yield.
C13_SizeHintIsDifference ==
    /\ size_hint(it) = it.width * it.height - (it.y * it.width + it.x)
    /\ size_hint(it) = Remaining(it)

\* C13 as amended: size_hint is width*height - (y*width + x) where that is
\* not negative and 0 where it is (the state an exhausting nth leaves), and
\* it is the number of coordinates further next calls yield.
C13_SizeHintIsSaturatedDifference ==
    LET diff == it.width * it.height - (it.y * it.width + it.x)
    IN  /\ size_hint(it) = (IF diff < 0 THEN 0 ELSE diff)
        /\ size_hint(it) = Remaining(it)

\* a 2 x 2 iterator that yielded two coordinates and was then exhausted by
\* nth: y*width + x is past width*height, and nothing is left
C13_Witness ==
    /\ it.width = 2 /\ it.height = 2 /\ Len(hist.yielded) = 2
    /\ hist.ncalls = 3 /\ ~hist.last.some /\ ~hist.onlyNext
    /\ it.x = 2 /\ it.y = 2
    /\ size_hint(it) = 0 /\ Remaining(it) = 0

\* C14: nth(n) with n at or past the remaining count returns None and leaves
\* a state from which nothing more is yielded; once a call has returned None
\* every later next and nth returns None and size_hint stays 0; no call
\* overflows the u16 counters x and y.
C14_FusedAndNoOverflow ==
    /\ (hist.lastOp = "nth" /\ hist.lastN >= hist.remBefore) =>
          /\ ~hist.last.some
          /\ size_hint(it) = 0
          /\ ~next(it).ret.some
          /\ \A n \in WideNs : ~nth(it, n).ret.some
    /\ (hist.ncalls > 0 /\ ~hist.last.some) =>
          size_hint(it) = 0 /\ ~next(it).ret.some
    /\ hist.noneBefore => ~hist.last.some /\ size_hint(it) = 0
    /\ ~hist.overflow

\* an iterator of u16::MAX columns was moved to its last column by nth, next
\* yielded that column and wrapped to the following row, nth then ran past
\* the end, and the call after that returned None again
C14_Witness ==
    /\ it.width = WideDim /\ it.height = 1
    /\ Len(hist.yielded) = 2 /\ hist.yielded[2] = Coord(WideDim - 1, 0)
    /\ hist.noneBefore /\ ~hist.last.some /\ hist.ncalls = 4
    /\ it.x = WideDim /\ it.y = 1

\* C15: an Image with width > 0 and height > 0, encoded with either endianness
\* into a buffer of exactly its encoded size and decoded from that buffer by
\* from_buffer, comes back equal (same width, height, transparent colour and
\* pixel sequence), and equal to what from_read returns for the same bytes.
C15_EncodeDecodeIdentity ==
    (/\ io.phase = "redecoded" /\ io.back.op = "from_buffer"
     /\ img.width > 0 /\ img.height > 0) =>
        /\ io.back.kind = "Ok"
        /\ io.back.image = img
        /\ \A mem \in CodecMem : from_read(ret.out, FALSE, mem).image = io.back.image

\* the same round trip through from_read, for the images the constructors build
C15_FromReadSide ==
    (/\ io.phase = "redecoded" /\ io.back.op = "from_read"
     /\ io.via \in {"new", "with_transparent_color", "from_read", "open"}
     /\ img.width > 0 /\ img.height > 0) =>
        io.back.kind = "Ok" /\ io.back.image = img

====================================================================
